---- MODULE Spec2Model ----
(***************************************************************************)
(* The asynchronous message pipeline of the Semker backend:                *)
(*   backend/api.py                       receive_message                  *)
(*   backend/process/message_processor.py MessageProcessor                 *)
(*   backend/agents/planner.py            PlannerAgent                     *)
(*   backend/agents/{billing,roaming,tariff,faq}.py  the specialists       *)
(*                                                                         *)
(* The runtime is one asyncio event loop: the code between two awaits is   *)
(* one atomic step.  Every action below is one such step of one task.      *)
(* The model service (self.invoke) and the tool service (the MCP plugin)   *)
(* are the environment: what they yield, and whether they raise, is drawn  *)
(* from small sets.  Timestamps are left out.                              *)
(***************************************************************************)
EXTENDS Naturals, Sequences, FiniteSets, TLC

\* ------------------------------------------------------------------ bounds
MaxMessages == 2        \* submit calls in the concurrent specification
MaxResponses == 1       \* responses one invoke() yields before it ends
MaxAgentMessages == 1   \* submit calls in the single-task specification
MaxApiMessages == 2     \* submit calls in the clients' specification
MaxThreadMessages == 3  \* submit calls in the one-conversation specification

\* --------------------------------------------------------------- constants
None == "None"

RECEIVED == "received"
IN_PROGRESS == "inprogress"
COMPLETED == "completed"
FAILED == "failed"
Terminal == {COMPLETED, FAILED}

PlannerName == "Planner"
AVAILABLE_AGENTS == {"Billing", "Roaming", "Tariff", "Faq"}

\* the AGENT_NAME each specialist class passes to its base class as name=
AgentName(agent) ==
    CASE agent = "Billing" -> "Billing"
      [] agent = "Roaming" -> "Roaming"
      [] agent = "Tariff"  -> "Tariff"
      [] agent = "Faq"     -> "FAQ"

ReceivedText == "Message received and sent to the agent."

\* texts of the exceptions the steps of a task can raise
KernelError == "kernel construction failed"
ModelError == "model invocation failed"
ParseError == "model output is not valid"
JoinError == "can only join an iterable"
UnboundError == "local variable '_response' referenced before assignment"
ConnectError == "tool connection failed"
CloseError == "tool close failed"

Max(a, b) == IF a > b THEN a ELSE b
MsgIds == 1..Max(Max(MaxMessages, MaxAgentMessages),
                 Max(MaxApiMessages, MaxThreadMessages))
ConvIds == {"c1", "c2"}
Contents == {"What is my bill?"}
\* request bodies: with the message field, and without it
Bodies == {[message |-> content] : content \in Contents} \cup {[text |-> "hello"]}
\* values of the x-ms-conversation-id header that receive_message rejects
NoConvs == {None, ""}

\* ------------------------------------------------------- model outputs
\* The content of one response of the model: either text that json.loads /
\* model_validate reject, or an object of the response schema.  steps is
\* Optional[List[str]]: a list of step texts or null.
NoResponse == [shape |-> "none"]
NoThread == 0
\* an AgentThread that is no ChatHistoryAgentThread
ForeignThread == 99
\* An Optional value is the set of its values: {} is null, {v} is v.
StepsValues == {{<<"step">>}, {}}

\* the text of a response that is no JSON object of the response schema
Unparsed == "Sorry, I cannot help with that."

PlannerOutputs(names, replies) ==
    {[shape |-> "malformed", steps |-> {<<>>}, reply |-> Unparsed, agent_name |-> ""]} \cup
    [shape : {"valid"}, steps : StepsValues, reply : replies, agent_name : names]

AgentOutputs(replies) ==
    {[shape |-> "malformed", steps |-> {<<>>}, reply |-> Unparsed,
      human_input_required |-> FALSE, able_to_serve |-> TRUE]} \cup
    [shape : {"valid"}, steps : StepsValues, reply : replies,
     human_input_required : {FALSE}, able_to_serve : BOOLEAN]

\* the planner names and replies drawn in the two specifications
AllNames == AVAILABLE_AGENTS \cup {"", "FAQ"}
PlannerReplies == {"plan-1", "plan-2"}
AgentReplies == {"X", "Y"}

WellFormedPlannerOutputs ==
    [shape : {"valid"}, steps : {{<<"step">>}}, reply : {"plan-1"},
     agent_name : {"Faq", ""}]

\* the planner names no specialist
DirectOutputs ==
    [shape : {"valid"}, steps : {{<<"step">>}}, reply : {"plan-1"},
     agent_name : {""}]

WellFormedAgentOutputs ==
    [shape : {"valid"}, steps : {{<<"step">>}}, reply : {"X"},
     human_input_required : {FALSE}, able_to_serve : {TRUE}]

VARIABLES
    messages_store,   \* message id -> [content, status, processed]
    updates_store,    \* message id -> sequence of updates
    threads,          \* conversation id -> thread object
    thread_ctx,       \* thread object -> ids of the messages whose turns it holds
    pc,               \* message id -> position of its background task
    thread_id,        \* message id -> conversation id the task was given
    thread,           \* message id -> local variable thread of the task
    response,         \* message id -> content of the planner's _response
    inner_response,   \* message id -> content of the specialist's _response
    count,            \* message id -> responses the running invoke() has yielded
    plugin,           \* message id -> state of the specialist's tool connection
    close_calls,      \* message id -> calls of plugin.close()
    exc,              \* message id -> text of the exception raised in the task
    emitted           \* message id -> updates passed to the callback, in order

vars == <<messages_store, updates_store, threads, thread_ctx, pc, thread_id,
          thread, response, inner_response, count, plugin, close_calls, exc,
          emitted>>

stores == <<messages_store, updates_store, threads>>
tool == <<plugin, close_calls>>

Submitted == DOMAIN messages_store

Last(s) == s[Len(s)]

IsPrefix(s, t) == Len(s) <= Len(t) /\ SubSeq(t, 1, Len(s)) = s

\* an update that carries the id of another message
UpdateResponse_FixedId(m, status, result, agent_name) ==
    [message_id |-> 1, status |-> status, result |-> result,
     agent_name |-> agent_name]

UpdateResponse(m, status, result, agent_name) ==
    [message_id |-> m, status |-> status, result |-> result,
     agent_name |-> agent_name]

Init ==
    /\ messages_store = <<>>
    /\ updates_store = <<>>
    /\ threads = <<>>
    /\ thread_ctx = [o \in MsgIds |-> {}]
    /\ pc = [m \in MsgIds |-> "none"]
    /\ thread_id = [m \in MsgIds |-> None]
    /\ thread = [m \in MsgIds |-> NoThread]
    /\ response = [m \in MsgIds |-> NoResponse]
    /\ inner_response = [m \in MsgIds |-> NoResponse]
    /\ count = [m \in MsgIds |-> 0]
    /\ plugin = [m \in MsgIds |-> "none"]
    /\ close_calls = [m \in MsgIds |-> 0]
    /\ exc = [m \in MsgIds |-> None]
    /\ emitted = [m \in MsgIds |-> <<>>]

\* ------------------------------------------------ MessageProcessor helpers

\* submit_message: the entry stored under the new id
NewMessage(content) ==
    [content |-> content, status |-> RECEIVED, processed |-> FALSE]

\* an assignment that is lost
SetStatus_Keep(store, m, status) == store

\* messages_store[message_id]["status"] = status
SetStatus(store, m, status) ==
    [store EXCEPT ![m].status = status]

\* a process_message_async that leaves the status as submit_message set it
MarkInProgress_Skipped(store, m) == store

\* messages_store[message_id]["status"] = MessageStatus.IN_PROGRESS
MarkInProgress(store, m) == SetStatus(store, m, IN_PROGRESS)

\* get_message_updates: updates_store.get(message_id, [])
GetUpdates(store, m) == IF m \in DOMAIN store THEN store[m] ELSE <<>>

\* a callback that starts the list afresh on every call
AppendUpdate_Reset(store, m, update) == (m :> <<update>>) @@ store

\* _on_intermediate_response, and the two appends of process_message_async:
\* create the list when the id has none, then append
AppendUpdate(store, m, update) ==
    IF m \in DOMAIN store
    THEN [store EXCEPT ![m] = Append(@, update)]
    ELSE (m :> <<update>>) @@ store

\* a lookup that hands every task the object it has just constructed
GetThread_AlwaysFresh(registry, c, fresh) == fresh

\* a lookup without the isinstance test
GetThread_Unchecked(registry, c, fresh) ==
    IF c \in DOMAIN registry THEN registry[c] ELSE fresh

\* isinstance(thread, ChatHistoryAgentThread): the threads the tasks construct
IsChatHistoryAgentThread(o) == o \in MsgIds

\* threads.get(thread_id, ChatHistoryAgentThread()): the stored object, or the
\* object the call constructs for this task; that object as well when the
\* stored one is no ChatHistoryAgentThread
GetThread(registry, c, fresh) ==
    IF c \in DOMAIN registry /\ IsChatHistoryAgentThread(registry[c])
    THEN registry[c]
    ELSE fresh

\* the locals _status, _response, _agent_name after the try statement ...
\* ... when the agent call returned (reply, thread, agent_name)
Returned(ret) ==
    [status |-> COMPLETED, response |-> ret.reply, agent_name |-> ret.agent_name,
     thread |-> ret.thread]

\* an except branch that reports a fixed text instead of str(e)
Caught_FixedText(e, thr) ==
    [status |-> FAILED, response |-> "Processing failed", agent_name |-> None,
     thread |-> thr]

\* ... when it raised e: thread keeps the value it had before the call
Caught(e, thr) ==
    [status |-> FAILED, response |-> e, agent_name |-> None, thread |-> thr]

\* "\n".join(steps): raises TypeError on null
CanJoin(steps) == steps # {}
Join(steps) ==
    LET l == CHOOSE x \in steps : TRUE
    IN  IF Len(l) = 0 THEN "" ELSE l[1]

\* a parser that falls back to the raw text as the reply, with no steps
Valid_Lenient(out) == out.reply # ""

\* json.loads + model_validate accept the content
Valid(out) == out.shape = "valid"

\* --------------------------------------------------------- agent helpers

\* an if/elif chain that ends in an else branch for Billing
Route_ElseBilling(agent_name) ==
    CASE agent_name = "Roaming" -> "Roaming"
      [] agent_name = "Tariff"  -> "Tariff"
      [] agent_name = "Faq"     -> "Faq"
      [] OTHER -> "Billing"

\* PlannerAgent: the if/elif chain on _result.agent_name; None when no branch
\* is taken
Route(agent_name) ==
    CASE agent_name = "Billing" -> "Billing"
      [] agent_name = "Roaming" -> "Roaming"
      [] agent_name = "Tariff"  -> "Tariff"
      [] agent_name = "Faq"     -> "Faq"
      [] OTHER -> None

\* a planner that signs the delegate's reply with its own name
PlannerDelegated_OwnName(inner) ==
    [reply |-> inner.reply, thread |-> inner.thread, agent_name |-> PlannerName]

\* PlannerAgent's two return statements
PlannerDelegated(inner) ==
    [reply |-> inner.reply, thread |-> inner.thread, agent_name |-> inner.agent_name]

PlannerDirect(result, thr) ==
    [reply |-> result.reply, thread |-> thr, agent_name |-> PlannerName]

\* a specialist's AgentResponse, built from the last model response
AgentResponse(llm, thr, agent) ==
    [reply |-> llm.reply, human_input_required |-> llm.human_input_required,
     able_to_serve |-> llm.able_to_serve, thread |-> thr,
     agent_name |-> AgentName(agent)]

\* the library's invoke(): the response it yields carries the thread it was
\* given, now holding this message's turn
Invoked(ctx, thr, m) == [ctx EXCEPT ![thr] = @ \cup {m}]

\* ------------------------------------------------------------ task steps

\* the frames of the task are gone: its locals hold nothing any more
Drop(m) ==
    /\ thread' = [thread EXCEPT ![m] = NoThread]
    /\ response' = [response EXCEPT ![m] = NoResponse]
    /\ inner_response' = [inner_response EXCEPT ![m] = NoResponse]
    /\ count' = [count EXCEPT ![m] = 0]

\* an end of process_message_async that keeps the thread an earlier task has
\* stored for the conversation
Finish_FirstWriterWins(m, fin) ==
    /\ threads' = threads @@ (thread_id[m] :> fin.thread)
    /\ IF m \in DOMAIN messages_store
       THEN /\ messages_store' =
                 [SetStatus(messages_store, m, fin.status) EXCEPT ![m].processed = TRUE]
            /\ updates_store' =
                 [updates_store EXCEPT ![m] = Append(@,
                     UpdateResponse(m, fin.status, fin.response, fin.agent_name))]
       ELSE UNCHANGED <<messages_store, updates_store>>
    /\ pc' = [pc EXCEPT ![m] = "done"]
    /\ Drop(m)

\* the end of process_message_async: store the thread back, set the final
\* status and append the final update
Finish(m, fin) ==
    /\ threads' = (thread_id[m] :> fin.thread) @@ threads
    /\ IF m \in DOMAIN messages_store
       THEN /\ messages_store' =
                 [SetStatus(messages_store, m, fin.status) EXCEPT ![m].processed = TRUE]
            /\ updates_store' =
                 [updates_store EXCEPT ![m] = Append(@,
                     UpdateResponse(m, fin.status, fin.response, fin.agent_name))]
       ELSE UNCHANGED <<messages_store, updates_store>>
    /\ pc' = [pc EXCEPT ![m] = "done"]
    /\ Drop(m)

\* the agent call raised e: the except branch, then the end of the function
Fail(m, e) ==
    /\ exc' = [exc EXCEPT ![m] = e]
    /\ Finish(m, Caught(e, thread[m]))
    /\ UNCHANGED emitted

\* a callback that puts the update at the head of the list
Callback_Prepend(m, result, agent_name) ==
    LET u == UpdateResponse(m, IN_PROGRESS, result, agent_name)
    IN  /\ updates_store' = (m :> (<<u>> \o GetUpdates(updates_store, m))) @@ updates_store
        /\ emitted' = [emitted EXCEPT ![m] = Append(@, u)]

\* a callback that drops the update
Callback_Silent(m, result, agent_name) ==
    UNCHANGED <<updates_store, emitted>>

\* on_intermediate_response(message_id, IN_PROGRESS, result, agent_name)
Callback(m, result, agent_name) ==
    LET u == UpdateResponse(m, IN_PROGRESS, result, agent_name)
    IN  /\ updates_store' = AppendUpdate(updates_store, m, u)
        /\ emitted' = [emitted EXCEPT ![m] = Append(@, u)]

\* an id generator that hands out the same id again
NewId_Fixed(store) == 1

\* submit_message: a new id (uuid4: an id no stored message has), the entry
\* stored under it, and the id in the MessageResponse
NewId(store) == Cardinality(DOMAIN store) + 1

submit_message(store, content) ==
    LET id == NewId(store)
    IN  [message_id |-> id, messages_store |-> (id :> NewMessage(content)) @@ store]

\* the request body FastAPI validates against the Message schema
HasMessage(body) == "message" \in DOMAIN body

\* request.headers.get("x-ms-conversation-id", None); if not thread_id
NoConversation(c) == c \in {None, ""}

\* a receive_message that looks at the header after submit_message
receive_message_SubmitFirst(store, c, body) ==
    IF ~HasMessage(body) THEN
        [status_code |-> 422, messages_store |-> store, tasks |-> {}]
    ELSE
        LET r == submit_message(store, body.message)
        IN  IF NoConversation(c)
            THEN [status_code |-> 400, messages_store |-> r.messages_store,
                  tasks |-> {}]
            ELSE [status_code |-> 201, messages_store |-> r.messages_store,
                  tasks |-> {[message_id |-> r.message_id, thread_id |-> c]}]

\* POST /messages: the status code of the response, the store after the call
\* and the background tasks the call has added
receive_message(store, c, body) ==
    IF ~HasMessage(body) THEN
        [status_code |-> 422, messages_store |-> store, tasks |-> {}]
    ELSE IF NoConversation(c) THEN
        [status_code |-> 400, messages_store |-> store, tasks |-> {}]
    ELSE
        LET r == submit_message(store, body.message)
        IN  [status_code |-> 201, messages_store |-> r.messages_store,
             tasks |-> {[message_id |-> r.message_id, thread_id |-> c]}]

\* the state after a call of receive_message with result r
Received(r) ==
    /\ messages_store' = r.messages_store
    /\ pc' = [m \in MsgIds |->
                 IF \E t \in r.tasks : t.message_id = m THEN "queued" ELSE pc[m]]
    /\ thread_id' = [m \in MsgIds |->
                 IF \E t \in r.tasks : t.message_id = m
                 THEN (CHOOSE t \in r.tasks : t.message_id = m).thread_id
                 ELSE thread_id[m]]
    /\ UNCHANGED <<updates_store, threads, thread_ctx, thread, response,
                   inner_response, count, tool, exc, emitted>>

\* a receive_message that begins the processing before it returns
SubmitMessage_Eager(c, content, limit) ==
    /\ Cardinality(Submitted) < limit
    /\ LET r == receive_message(messages_store, c, [message |-> content])
           id == NewId(messages_store)
       IN  /\ r.status_code = 201
           /\ messages_store' = MarkInProgress(r.messages_store, id)
           /\ updates_store' = AppendUpdate(updates_store, id,
                  UpdateResponse(id, RECEIVED, ReceivedText, None))
           /\ pc' = [pc EXCEPT ![id] = "queued"]
           /\ thread_id' = [thread_id EXCEPT ![id] = c]
    /\ UNCHANGED <<threads, thread_ctx, thread, response, inner_response,
                   count, tool, exc, emitted>>

\* receive_message accepts the request: submit_message and add the
\* background task
SubmitMessage(c, content, limit) ==
    /\ Cardinality(Submitted) < limit
    /\ LET r == receive_message(messages_store, c, [message |-> content])
       IN  r.status_code = 201 /\ Received(r)

\* receive_message rejects the request
RejectMessage(c, body) ==
    LET r == receive_message(messages_store, c, body)
    IN  r.status_code # 201 /\ Received(r)

\* the ids a client can ask for: those submit hands out and one it never does
QueryIds == {0} \cup MsgIds

\* a get_message_updates that does not look the id up in the message store
get_message_updates_NoCheck(m) ==
    [raised |-> None, value |-> GetUpdates(updates_store, m)]

\* a get_message_updates that looks the id up in the updates store
get_message_updates_ByUpdates(m) ==
    IF m \notin DOMAIN updates_store
    THEN [raised |-> "KeyError"]
    ELSE [raised |-> None, value |-> updates_store[m]]

\* MessageProcessor.get_message_updates
get_message_updates(m) ==
    IF m \notin DOMAIN messages_store
    THEN [raised |-> "KeyError"]
    ELSE [raised |-> None, value |-> GetUpdates(updates_store, m)]

\* MessageProcessor.get_message_status
get_message_status(m) ==
    IF m \notin DOMAIN messages_store
    THEN [raised |-> "KeyError"]
    ELSE [raised |-> None,
          value |-> [message_id |-> m, status |-> messages_store[m].status,
                     content |-> messages_store[m].content]]

\* MessageProcessor.list_all_messages: the entries in insertion order, which
\* is the order of the ids
list_all_messages ==
    [total_messages |-> Cardinality(DOMAIN messages_store),
     messages |-> [i \in 1..Cardinality(DOMAIN messages_store) |->
                      [message_id |-> i, status |-> messages_store[i].status]]]

\* the API handlers: a KeyError of the processor becomes 404
HttpResponse(ret) ==
    IF ret.raised = "KeyError"
    THEN [status_code |-> 404]
    ELSE [status_code |-> 200, body |-> ret.value]

GET_updates(m) == HttpResponse(get_message_updates(m))
GET_status(m) == HttpResponse(get_message_status(m))
GET_messages == [status_code |-> 200, body |-> list_all_messages]

\* a client reads: the handlers assign nothing
GetUpdatesRequest(m) ==
    GET_updates(m).status_code \in {200, 404} /\ UNCHANGED vars

GetStatusRequest(m) ==
    GET_status(m).status_code \in {200, 404} /\ UNCHANGED vars

ListRequest ==
    GET_messages.status_code = 200 /\ UNCHANGED vars

\* process_message_async up to the first await: mark InProgress, append the
\* Received update, fetch the thread, build KernelUtils and the planner
\* (either may raise, outside the try statement), enter the try statement and
\* start the planner's invoke()
ProcessStart(m, built) ==
    /\ pc[m] = "queued"
    /\ IF m \in DOMAIN messages_store
       THEN /\ messages_store' = MarkInProgress(messages_store, m)
            /\ updates_store' = AppendUpdate(updates_store, m,
                   UpdateResponse(m, RECEIVED, ReceivedText, None))
       ELSE UNCHANGED <<messages_store, updates_store>>
    /\ IF built
       THEN /\ thread' = [thread EXCEPT ![m] = GetThread(threads, thread_id[m], m)]
            /\ pc' = [pc EXCEPT ![m] = "planner_invoke"]
            /\ UNCHANGED exc
       ELSE /\ pc' = [pc EXCEPT ![m] = "crashed"]
            /\ exc' = [exc EXCEPT ![m] = KernelError]
            /\ UNCHANGED thread
    /\ UNCHANGED <<threads, thread_ctx, thread_id, response, inner_response,
                   count, tool, emitted>>

\* PlannerAgent: invoke() yields a response; the loop body parses it and
\* publishes its steps
PlannerYield(m, out) ==
    /\ pc[m] = "planner_invoke"
    /\ count[m] < MaxResponses
    /\ thread_ctx' = Invoked(thread_ctx, thread[m], m)
    /\ IF ~Valid(out) THEN Fail(m, ParseError)
       ELSE IF ~CanJoin(out.steps) THEN Fail(m, JoinError)
       ELSE /\ Callback(m, Join(out.steps), PlannerName)
            /\ response' = [response EXCEPT ![m] = out]
            /\ count' = [count EXCEPT ![m] = @ + 1]
            /\ UNCHANGED <<messages_store, threads, pc, exc, thread, inner_response>>
    /\ UNCHANGED <<thread_id, tool>>

\* PlannerAgent: invoke() raises
PlannerRaise(m) ==
    /\ pc[m] = "planner_invoke"
    /\ Fail(m, ModelError)
    /\ UNCHANGED <<thread_ctx, thread_id, tool>>

\* PlannerAgent: invoke() ends; parse the last response again and either
\* publish the reply and call the chosen specialist (which opens its tool
\* connection), or return the planner's own reply
PlannerEnd(m) ==
    /\ pc[m] = "planner_invoke"
    /\ IF response[m] = NoResponse THEN
            Fail(m, UnboundError)
       ELSE IF Route(response[m].agent_name) # None THEN
            /\ Callback(m, response[m].reply, PlannerName)
            /\ pc' = [pc EXCEPT ![m] = "agent_connect"]
            /\ count' = [count EXCEPT ![m] = 0]
            /\ UNCHANGED <<messages_store, threads, exc, thread, response,
                           inner_response>>
       ELSE /\ Finish(m, Returned(PlannerDirect(response[m], thread[m])))
            /\ UNCHANGED <<exc, emitted>>
    /\ UNCHANGED <<thread_ctx, thread_id, tool>>

\* specialist: await plugin.connect() returns or raises
AgentConnect(m, ok) ==
    /\ pc[m] = "agent_connect"
    /\ IF ok
       THEN /\ plugin' = [plugin EXCEPT ![m] = "open"]
            /\ pc' = [pc EXCEPT ![m] = "agent_invoke"]
            /\ UNCHANGED <<stores, exc, emitted, thread, response,
                           inner_response, count>>
       ELSE /\ Fail(m, ConnectError)
            /\ UNCHANGED plugin
    /\ UNCHANGED <<thread_ctx, thread_id, close_calls>>

\* specialist: invoke() yields a response; the loop body parses it and
\* publishes its steps
AgentYield(m, out) ==
    /\ pc[m] = "agent_invoke"
    /\ count[m] < MaxResponses
    /\ thread_ctx' = Invoked(thread_ctx, thread[m], m)
    /\ IF ~Valid(out) THEN Fail(m, ParseError)
       ELSE IF ~CanJoin(out.steps) THEN Fail(m, JoinError)
       ELSE /\ Callback(m, Join(out.steps),
                        AgentName(Route(response[m].agent_name)))
            /\ inner_response' = [inner_response EXCEPT ![m] = out]
            /\ count' = [count EXCEPT ![m] = @ + 1]
            /\ UNCHANGED <<messages_store, threads, pc, exc, thread, response>>
    /\ UNCHANGED <<thread_id, tool>>

\* specialist: invoke() raises
AgentRaise(m) ==
    /\ pc[m] = "agent_invoke"
    /\ Fail(m, ModelError)
    /\ UNCHANGED <<thread_ctx, thread_id, tool>>

\* specialist: invoke() ends; build the AgentResponse and call plugin.close()
AgentEnd(m) ==
    /\ pc[m] = "agent_invoke"
    /\ IF inner_response[m] = NoResponse
       THEN /\ Fail(m, UnboundError)
            /\ UNCHANGED close_calls
       ELSE /\ pc' = [pc EXCEPT ![m] = "agent_close"]
            /\ close_calls' = [close_calls EXCEPT ![m] = @ + 1]
            /\ UNCHANGED <<stores, exc, emitted, thread, response,
                           inner_response, count>>
    /\ UNCHANGED <<thread_ctx, thread_id, plugin>>

\* a planner that asks the model again when the specialist could not serve
AgentClose_Retry(m, ok) ==
    /\ pc[m] = "agent_close"
    /\ IF ok /\ ~inner_response[m].able_to_serve
       THEN /\ plugin' = [plugin EXCEPT ![m] = "closed"]
            /\ pc' = [pc EXCEPT ![m] = "planner_invoke"]
            /\ count' = [count EXCEPT ![m] = 0]
            /\ UNCHANGED <<stores, exc, emitted, thread, response, inner_response>>
       ELSE IF ok
       THEN /\ plugin' = [plugin EXCEPT ![m] = "closed"]
            /\ Finish(m, Returned(PlannerDelegated(
                   AgentResponse(inner_response[m], thread[m],
                                 Route(response[m].agent_name)))))
            /\ UNCHANGED <<exc, emitted>>
       ELSE /\ Fail(m, CloseError)
            /\ UNCHANGED plugin
    /\ UNCHANGED <<thread_ctx, thread_id, close_calls>>

\* specialist: await plugin.close() returns or raises; on return the
\* AgentResponse goes back through the planner to process_message_async
AgentClose(m, ok) ==
    /\ pc[m] = "agent_close"
    /\ IF ok
       THEN /\ plugin' = [plugin EXCEPT ![m] = "closed"]
            /\ Finish(m, Returned(PlannerDelegated(
                   AgentResponse(inner_response[m], thread[m],
                                 Route(response[m].agent_name)))))
            /\ UNCHANGED <<exc, emitted>>
       ELSE /\ Fail(m, CloseError)
            /\ UNCHANGED plugin
    /\ UNCHANGED <<thread_ctx, thread_id, close_calls>>

\* ---------------------------------------------------------- specifications

\* one step of the background task of message m
TaskStep(m, planner_outs, agent_outs) ==
    \/ \E built \in BOOLEAN : ProcessStart(m, built)
    \/ \E out \in planner_outs : PlannerYield(m, out)
    \/ PlannerRaise(m)
    \/ PlannerEnd(m)
    \/ \E ok \in BOOLEAN : AgentConnect(m, ok)
    \/ \E out \in agent_outs : AgentYield(m, out)
    \/ AgentRaise(m)
    \/ AgentEnd(m)
    \/ \E ok \in BOOLEAN : AgentClose(m, ok)

\* Conversation ids are opaque tokens that are only compared with each other:
\* the first message is on "c1", a later one on the same or another one.
NextConvs == IF Submitted = {} THEN {"c1"} ELSE ConvIds

\* Spec: up to MaxMessages messages on two conversations, their tasks
\* interleaved at every await.  The model answers with well-formed output
\* and the failures are raised calls.
Next ==
    \/ \E c \in NextConvs, content \in Contents : SubmitMessage(c, content, MaxMessages)
    \/ \E m \in MsgIds : TaskStep(m, WellFormedPlannerOutputs, WellFormedAgentOutputs)

Spec == Init /\ [][Next]_vars

\* AgentSpec: up to MaxAgentMessages messages on one conversation, every
\* planner choice and reply, well-formed or not
AgentNext ==
    \/ \E content \in Contents : SubmitMessage("c1", content, MaxAgentMessages)
    \/ \E m \in MsgIds :
          TaskStep(m, PlannerOutputs(AllNames, PlannerReplies), AgentOutputs(AgentReplies))

AgentSpec == Init /\ [][AgentNext]_vars

\* FairSpec: Spec, with every task that can take a step eventually taking
\* one: the event loop resumes every task, and every model and tool call
\* returns or raises
FairSpec ==
    /\ Spec
    /\ \A m \in MsgIds :
          WF_vars(TaskStep(m, WellFormedPlannerOutputs, WellFormedAgentOutputs))

\* one step of the background task of a message the planner answers itself
PlannerStep(m, planner_outs) ==
    \/ \E built \in BOOLEAN : ProcessStart(m, built)
    \/ \E out \in planner_outs : PlannerYield(m, out)
    \/ PlannerRaise(m)
    \/ PlannerEnd(m)

\* RegistrySpec: the lookup of the thread, for each value the registry
\* (a Dict[str, AgentThread]) can hold for the conversation: no entry, or a
\* thread of another AgentThread type.  Up to MaxApiMessages messages on that
\* conversation; the planner answers every message itself.
RegistryInit ==
    /\ messages_store = <<>>
    /\ updates_store = <<>>
    /\ threads \in {<<>>, [c \in {"c1"} |-> ForeignThread]}
    /\ thread_ctx = [o \in MsgIds |-> {}]
    /\ pc = [m \in MsgIds |-> "none"]
    /\ thread_id = [m \in MsgIds |-> None]
    /\ thread = [m \in MsgIds |-> NoThread]
    /\ response = [m \in MsgIds |-> NoResponse]
    /\ inner_response = [m \in MsgIds |-> NoResponse]
    /\ count = [m \in MsgIds |-> 0]
    /\ plugin = [m \in MsgIds |-> "none"]
    /\ close_calls = [m \in MsgIds |-> 0]
    /\ exc = [m \in MsgIds |-> None]
    /\ emitted = [m \in MsgIds |-> <<>>]

RegistryNext ==
    \/ \E content \in Contents : SubmitMessage("c1", content, MaxApiMessages)
    \/ \E m \in MsgIds : PlannerStep(m, DirectOutputs)

RegistrySpec == RegistryInit /\ [][RegistryNext]_vars

\* process_message_async called for an id that submit_message never stored
CallProcess(m, c) ==
    /\ pc[m] = "none"
    /\ m \notin Submitted
    /\ pc' = [pc EXCEPT ![m] = "queued"]
    /\ thread_id' = [thread_id EXCEPT ![m] = c]
    /\ UNCHANGED <<messages_store, updates_store, threads, thread_ctx, thread,
                   response, inner_response, count, tool, exc, emitted>>

\* the ids submit_message does not hand out in DirectSpec
UnknownIds == MsgIds \ (1..MaxAgentMessages)

\* DirectSpec: the operations of the MessageProcessor called directly:
\* up to MaxAgentMessages submitted messages, and process_message_async also
\* for ids that were never submitted; the planner answers every message
\* itself.
DirectNext ==
    \/ \E content \in Contents : SubmitMessage("c1", content, MaxAgentMessages)
    \/ \E m \in UnknownIds : CallProcess(m, "c1")
    \/ \E m \in MsgIds : PlannerStep(m, DirectOutputs)

DirectSpec == Init /\ [][DirectNext]_vars

\* HungSpec: Spec, where a model or tool call of message 1 may never return
\* (there is no timeout around any await), while the calls of every other
\* message return or raise and the event loop resumes their tasks
HungSpec ==
    /\ Spec
    /\ \A m \in MsgIds \ {1} :
          WF_vars(TaskStep(m, WellFormedPlannerOutputs, WellFormedAgentOutputs))

\* ApiSpec: the clients' side.  Up to MaxApiMessages accepted requests on one
\* conversation, rejected requests, and reads of any id at any time, while
\* the tasks run; the planner answers every message itself.
ApiNext ==
    \/ \E content \in Contents : SubmitMessage("c1", content, MaxApiMessages)
    \/ \E c \in {"c1"} \cup NoConvs, body \in Bodies : RejectMessage(c, body)
    \/ \E m \in QueryIds : GetUpdatesRequest(m)
    \/ \E m \in QueryIds : GetStatusRequest(m)
    \/ ListRequest
    \/ \E m \in MsgIds : PlannerStep(m, DirectOutputs)

ApiSpec == Init /\ [][ApiNext]_vars

\* ThreadSpec: up to MaxThreadMessages messages on one conversation, their
\* tasks interleaved at every await, so that two tasks can run at once on a
\* conversation an earlier message has left a thread for; the planner
\* answers every message itself.
ThreadNext ==
    \/ \E content \in Contents : SubmitMessage("c1", content, MaxThreadMessages)
    \/ \E m \in MsgIds : PlannerStep(m, DirectOutputs)

ThreadSpec == Init /\ [][ThreadNext]_vars

\* ------------------------------------------------------------------ claims

StatusOf(store, m) == IF m \in DOMAIN store THEN store[m].status ELSE "absent"

Finished(m) == pc[m] \in {"done", "crashed"}

\* the exceptions that come out of the agent call, inside the try statement
AgentCallErrors ==
    {ModelError, ParseError, JoinError, UnboundError, ConnectError, CloseError}

\* C1: in every step, the stored status of every message either stays as it
\* is or moves from absent to Received (submit), from Received to InProgress,
\* or from InProgress to Completed or Failed; nothing else, so a terminal
\* status is never reached without InProgress and is never left.
C1_StatusStateMachine ==
    [][\A m \in MsgIds :
          LET old == StatusOf(messages_store, m)
              new == StatusOf(messages_store', m)
          IN  \/ new = old
              \/ old = "absent" /\ new = RECEIVED
              \/ old = RECEIVED /\ new = IN_PROGRESS
              \/ old = IN_PROGRESS /\ new \in Terminal]_vars

C1_Witness ==
    \E m, n \in Submitted :
        /\ messages_store[m].status = COMPLETED
        /\ messages_store[n].status = FAILED

\* C2: once the task of a message has ended, however it ended, the updates
\* of the message are a non-empty list whose last element is Completed or
\* Failed.
C2_TerminalUpdateAfterProcess ==
    \A m \in MsgIds :
        Finished(m) =>
            /\ GetUpdates(updates_store, m) # <<>>
            /\ Last(GetUpdates(updates_store, m)).status \in Terminal

\* C3: when the agent call raised, the task ended normally (the exception
\* did not escape), the message is Failed and the last update is Failed,
\* carries the exception's text and no agent name.
C3_AgentExceptionIsFailed ==
    \A m \in MsgIds :
        exc[m] \in AgentCallErrors =>
            /\ pc[m] = "done"
            /\ StatusOf(messages_store, m) = FAILED
            /\ Last(GetUpdates(updates_store, m)) =
                   UpdateResponse(m, FAILED, exc[m], None)

C3_Witness ==
    \E m \in MsgIds :
        /\ exc[m] = ConnectError
        /\ Last(GetUpdates(updates_store, m)).result = ConnectError

\* C4: when building the kernel or the planner raised, the message is Failed
\* and its last update is the Failed one with the exception's text, as for a
\* failure of the agent call.
C4_ConstructionFailureIsFailed ==
    \A m \in MsgIds :
        exc[m] = KernelError =>
            /\ StatusOf(messages_store, m) = FAILED
            /\ Last(GetUpdates(updates_store, m)) =
                   UpdateResponse(m, FAILED, KernelError, None)

\* C5: when the task ended by an exception of the specialist's model
\* invocation or of the parsing of its output, raised after the tool
\* connection was opened, close was called exactly once, the connection is
\* closed and the message is Failed.
C5_ToolClosedOnFailure ==
    \A m \in MsgIds :
        ( /\ pc[m] = "done"
          /\ plugin[m] # "none"
          /\ exc[m] \in {ModelError, ParseError, JoinError, UnboundError} ) =>
            /\ close_calls[m] = 1
            /\ plugin[m] = "closed"
            /\ StatusOf(messages_store, m) = FAILED

\* C6: in the step in which the specialist chosen from the catalog returns,
\* the message becomes Completed and the update appended last carries the
\* specialist's reply and the specialist's own name, not the planner's.
C6_DelegateResultIsTerminal ==
    [][\A m \in MsgIds :
          ( /\ pc[m] = "agent_close"
            /\ response[m].agent_name \in AVAILABLE_AGENTS
            /\ pc'[m] = "done"
            /\ exc'[m] = None ) =>
              /\ StatusOf(messages_store', m) = COMPLETED
              /\ Last(GetUpdates(updates_store', m)) =
                     UpdateResponse(m, COMPLETED, inner_response[m].reply,
                                    AgentName(response[m].agent_name))
              /\ Last(GetUpdates(updates_store', m)).agent_name # PlannerName]_vars

C6_Witness ==
    \E m \in MsgIds :
        /\ pc[m] = "done"
        /\ plugin[m] = "closed"
        /\ Last(GetUpdates(updates_store, m)) =
               UpdateResponse(m, COMPLETED, "Y", "Billing")

\* C7: when the planner's invocation has ended and the name in its last
\* response is no catalog entry, the task ends in that very step: no
\* specialist is called and no tool connection opened, nothing is raised, the
\* message is Completed and the last update carries the planner's reply and
\* the planner's name.
C7_NoRouteFallback ==
    [][\A m \in MsgIds :
          ( /\ pc[m] = "planner_invoke"
            /\ response[m] # NoResponse
            /\ response[m].agent_name \notin AVAILABLE_AGENTS
            /\ pc'[m] # "planner_invoke"
            /\ exc'[m] \notin {ModelError, ParseError, JoinError} ) =>
              /\ pc'[m] = "done"
              /\ exc'[m] = None
              /\ plugin'[m] = "none"
              /\ StatusOf(messages_store', m) = COMPLETED
              /\ Last(GetUpdates(updates_store', m)) =
                     UpdateResponse(m, COMPLETED, response[m].reply, PlannerName)]_vars

C7_Witness ==
    \E m \in MsgIds :
        /\ pc[m] = "done"
        /\ plugin[m] = "none"
        /\ Last(GetUpdates(updates_store, m)) =
               UpdateResponse(m, COMPLETED, "plan-2", PlannerName)

\* C8: in every step, what get_updates returned for a message before the
\* step is a prefix of what it returns after it.
C8_UpdatesAppendOnly ==
    [][\A m \in MsgIds :
          IsPrefix(GetUpdates(updates_store, m), GetUpdates(updates_store', m))]_vars

C8_Witness ==
    \E m, n \in MsgIds :
        /\ m # n
        /\ Len(GetUpdates(updates_store, m)) >= 4
        /\ Len(GetUpdates(updates_store, n)) >= 2

\* C9: once the task of a message has ended, its updates are the Received
\* update, then the updates passed to the callback in the order of the
\* calls, then one terminal update.
C9_ReceivedFirstTerminalLast ==
    \A m \in MsgIds :
        Finished(m) =>
            LET ups == GetUpdates(updates_store, m)
            IN  /\ Len(ups) = Len(emitted[m]) + 2
                /\ ups[1] = UpdateResponse(m, RECEIVED, ReceivedText, None)
                /\ SubSeq(ups, 2, Len(ups) - 1) = emitted[m]
                /\ Last(ups).status \in Terminal

\* C10: every submitted message eventually is Completed or Failed.
C10_EventuallyTerminal ==
    \A m \in MsgIds :
        (m \in Submitted) ~> (StatusOf(messages_store, m) \in Terminal)

\* the thread the registry holds for a conversation, NoThread when it has none
Entry(registry, c) == IF c \in DOMAIN registry THEN registry[c] ELSE NoThread

Running(m) == pc[m] \notin {"none", "queued", "done", "crashed"}

\* C11: the registry maps each conversation id to one thread.  The step in
\* which a task returns successfully stores the thread the agent returned,
\* holding this message's turn, under the task's conversation id; no step
\* other than the end of a task of that conversation changes the entry; and
\* the step in which a task starts hands it exactly the stored thread, or,
\* when the conversation has no entry, a thread that holds no turn and that
\* no other task and no registry entry refers to.
C11_ThreadReuse ==
    [][/\ DOMAIN threads' \subseteq ConvIds
       /\ \A m \in MsgIds :
             (pc[m] # "done" /\ pc'[m] = "done" /\ exc'[m] = None) =>
                /\ Entry(threads', thread_id[m]) = thread[m]
                /\ m \in thread_ctx'[thread[m]]
       /\ \A c \in ConvIds :
             Entry(threads', c) # Entry(threads, c) =>
                \E m \in MsgIds :
                    thread_id[m] = c /\ pc[m] # "done" /\ pc'[m] = "done"
       /\ \A m \in MsgIds :
             (pc[m] = "queued" /\ pc'[m] = "planner_invoke") =>
                IF thread_id[m] \in DOMAIN threads
                THEN thread'[m] = threads[thread_id[m]]
                ELSE /\ thread'[m] # NoThread
                     /\ thread_ctx[thread'[m]] = {}
                     /\ \A n \in MsgIds \ {m} : thread[n] # thread'[m]
                     /\ \A c \in DOMAIN threads : threads[c] # thread'[m]]_vars

\* the second message of a conversation runs on the thread the first one
\* stored when it completed
C11_Witness ==
    \E m, n \in MsgIds :
        /\ m # n
        /\ thread_id[m] = thread_id[n]
        /\ pc[m] = "done" /\ exc[m] = None
        /\ pc[n] = "planner_invoke"
        /\ thread[n] = threads[thread_id[n]]
        /\ m \in thread_ctx[thread[n]]

\* C12: in every reachable state, for every id that no submit has returned,
\* get_updates and get_status both answer 404 Not Found.  (Both handlers only
\* read: GetUpdatesRequest and GetStatusRequest leave every variable as it
\* is.)
C12_UnknownIdNotFound ==
    \A m \in QueryIds \ Submitted :
        /\ GET_updates(m) = [status_code |-> 404]
        /\ GET_status(m) = [status_code |-> 404]

\* one message has been processed, another id has not been handed out yet
C12_Witness ==
    \E m \in Submitted, n \in MsgIds \ Submitted :
        /\ pc[m] = "done"
        /\ GET_updates(m).status_code = 200
        /\ GET_updates(n).status_code = 404
        /\ GET_status(0).status_code = 404

\* C13: while a message is submitted and its background task has not
\* started, get_status answers 200 with status Received and get_updates
\* answers 200 with the empty list.
C13_ReadableBeforeProcessing ==
    \A m \in MsgIds :
        pc[m] = "queued" =>
            /\ GET_status(m).status_code = 200
            /\ GET_status(m).body.status = RECEIVED
            /\ GET_updates(m) = [status_code |-> 200, body |-> <<>>]

\* a message waits for its task while the task of another has written updates
C13_Witness ==
    \E m, n \in MsgIds :
        /\ pc[m] = "queued"
        /\ GET_updates(m).status_code = 200
        /\ pc[n] = "planner_invoke"
        /\ Len(GetUpdates(updates_store, n)) >= 2

\* C14: the step in which a message appears in the store stores it with
\* status Received and queues its task, and changes nothing else: no update
\* list, no registry entry, no thread, no tool connection, no task and no
\* other message.  A task never leaves its initial position other than by
\* being queued by that step, so no task runs before its submit returned.
C14_SubmitOnlyStores ==
    [][\A m \in MsgIds :
          /\ (m \notin Submitted /\ m \in Submitted') =>
                /\ messages_store'[m].status = RECEIVED
                /\ ~messages_store'[m].processed
                /\ pc[m] = "none" /\ pc'[m] = "queued"
                /\ m \notin DOMAIN updates_store'
                /\ UNCHANGED <<updates_store, threads, thread_ctx, thread,
                               response, inner_response, count, plugin,
                               close_calls, exc, emitted>>
                /\ \A n \in MsgIds \ {m} :
                       /\ pc'[n] = pc[n]
                       /\ n \in Submitted => messages_store'[n] = messages_store[n]
          /\ pc[m] = "none" => pc'[m] \in {"none", "queued"}
          /\ pc'[m] # "none" => m \in Submitted']_vars

\* a message has just been accepted while the task of another one is in the
\* middle of a specialist call
C14_Witness ==
    \E m, n \in MsgIds :
        /\ pc[m] = "queued"
        /\ pc[n] = "agent_invoke"
        /\ plugin[n] = "open"
        /\ m \notin DOMAIN updates_store

\* C15: a request whose body has no message field is answered 422, and one
\* whose body is valid but whose x-ms-conversation-id header is missing or
\* empty is answered 400; a rejected request stores no message and adds no
\* background task, and the step of the handler that rejects it changes
\* nothing at all (no update list, no registry entry, no task).
C15_RejectedSubmitNoEffect ==
    [][\A c \in ConvIds \cup NoConvs, body \in Bodies :
          LET r == receive_message(messages_store, c, body)
          IN  /\ ~HasMessage(body) => r.status_code = 422
              /\ (HasMessage(body) /\ c \in NoConvs) => r.status_code = 400
              /\ r.status_code # 201 =>
                    /\ r.messages_store = messages_store
                    /\ r.tasks = {}
                    /\ Received(r) => UNCHANGED vars]_vars

\* requests are rejected while one message is being processed and another
\* one waits
C15_Witness ==
    \E m, n \in Submitted :
        /\ pc[m] = "planner_invoke"
        /\ pc[n] = "queued"
        /\ receive_message(messages_store, "", [message |-> "What is my bill?"]).status_code = 400
        /\ receive_message(messages_store, None, [message |-> "What is my bill?"]).status_code = 400
        /\ receive_message(messages_store, "c1", [text |-> "hello"]).status_code = 422

\* C16: before and after every step, list_all reports as total_messages the
\* number of submit calls that have returned (one background task was added
\* for each) and lists each of their messages exactly once, with the status
\* the store holds for it.  No step removes a message or changes its content,
\* and the step that queues a task adds exactly one entry under an id that
\* had none.
C16_ListAllComplete ==
    [][LET Listed(l, store, p) ==
               LET accepted == {m \in MsgIds : p[m] # "none"}
               IN  /\ l.total_messages = Cardinality(accepted)
                   /\ Len(l.messages) = l.total_messages
                   /\ \A m \in accepted :
                         \E i \in DOMAIN l.messages :
                             /\ l.messages[i] =
                                   [message_id |-> m, status |-> store[m].status]
                             /\ \A j \in DOMAIN l.messages :
                                   l.messages[j].message_id = m => j = i
       IN  /\ Listed(GET_messages.body, messages_store, pc)
           /\ Listed(GET_messages.body', messages_store', pc')
           /\ Submitted \subseteq Submitted'
           /\ \A m \in Submitted :
                 messages_store'[m].content = messages_store[m].content
           /\ \A m \in MsgIds :
                 (pc'[m] = "queued" /\ pc[m] # "queued") =>
                    /\ m \notin Submitted
                    /\ Submitted' = Submitted \cup {m}]_vars

\* two messages are listed, one each with a different status
C16_Witness ==
    /\ GET_messages.body.total_messages = 2
    /\ GET_messages.body.messages[1].status = FAILED
    /\ GET_messages.body.messages[2].status = IN_PROGRESS

\* C17 as the specification states it: whenever a task completes while
\* another task of the same conversation is running, the thread the running
\* task holds, which is the one it stores when it ends, does not hold the
\* turn of the completing one: the update of the first writer is lost.
C17_FirstWriterLost ==
    [][\A m, n \in MsgIds :
          ( /\ m # n
            /\ thread_id[m] = thread_id[n]
            /\ Running(m) /\ pc'[m] = "done" /\ exc'[m] = None
            /\ Running(n) ) =>
              m \notin thread_ctx'[thread[n]]]_vars

\* C17, amended: every task that ends stores the thread it holds, so the
\* registry holds the thread stored last.  When a task completes while
\* another task of the same conversation is running, its turn is missing
\* from the thread the running task will store exactly when the two hold
\* different threads (the conversation had no stored thread when they
\* started); when both were given the same stored thread, that thread holds
\* the turns of both and nothing is lost.
C17_LastWriterWins ==
    [][\A m \in MsgIds :
          (Running(m) /\ pc'[m] = "done") =>
             /\ Entry(threads', thread_id[m]) = thread[m]
             /\ \A n \in MsgIds \ {m} :
                   (exc'[m] = None /\ thread_id[n] = thread_id[m] /\ Running(n)) =>
                      (m \in thread_ctx'[thread[n]] <=> thread[n] = thread[m])]_vars

\* two tasks run at once on the thread an earlier message stored, and the
\* thread holds the turns of both
C17_Witness ==
    \E k, m, n \in MsgIds :
        /\ m # n /\ k \notin {m, n}
        /\ pc[k] = "done"
        /\ Running(m) /\ Running(n)
        /\ thread[m] = thread[n]
        /\ threads["c1"] = thread[m]
        /\ {k, m, n} \subseteq thread_ctx[thread[m]]

\* C18: the step in which a task ends in Failed leaves the registry as it
\* is: it adds no entry and replaces none, in particular not one that another
\* task of the conversation stored when it completed.
C18_FailedKeepsRegistry ==
    [][\A m \in MsgIds :
          (Running(m) /\ pc'[m] = "done" /\ exc'[m] # None) =>
             threads' = threads]_vars

\* C19: every tool connection belongs to the specialist call of one message
\* (plugin is a local of that call), and once every task has ended, whatever
\* its outcome, no tool connection is open.
C19_NoOpenConnectionAtEnd ==
    (\A m \in Submitted : Finished(m)) =>
        \A m \in MsgIds : plugin[m] # "open"

\* C20: no task ever holds a model response that could not be parsed, no
\* update with status Completed carries text taken from such a response, and
\* a task in which the parsing of the planner's or the specialist's output
\* raised has ended with the message Failed.
C20_UnparsedOutputIsFailed ==
    \A m \in MsgIds :
        /\ response[m].shape # "malformed"
        /\ inner_response[m].shape # "malformed"
        /\ \A i \in DOMAIN GetUpdates(updates_store, m) :
              updates_store[m][i].status = COMPLETED =>
                  updates_store[m][i].result # Unparsed
        /\ exc[m] = ParseError =>
              /\ pc[m] = "done"
              /\ StatusOf(messages_store, m) = FAILED
              /\ Last(GetUpdates(updates_store, m)).status = FAILED

\* the output of the specialist could not be parsed
C20_Witness ==
    \E m \in MsgIds :
        /\ exc[m] = ParseError
        /\ plugin[m] = "open"
        /\ StatusOf(messages_store, m) = FAILED
        /\ Len(emitted[m]) = 2

\* C21: the task of a message passes the planner once and then at most one
\* specialist call: from the specialist call it only moves forward (connect,
\* invoke, close) or ends, it never returns to the planner or to a second
\* connect, a connection once closed is not opened again, and a task that has
\* ended stays ended.  When the specialist returns a result with
\* able_to_serve = false, the task ends in that step, the message is
\* Completed and the last update carries the specialist's reply.
C21_SingleDelegation ==
    [][\A m \in MsgIds :
          /\ pc[m] = "agent_connect" =>
                pc'[m] \in {"agent_connect", "agent_invoke", "done"}
          /\ pc[m] = "agent_invoke" =>
                pc'[m] \in {"agent_invoke", "agent_close", "done"}
          /\ pc[m] = "agent_close" => pc'[m] \in {"agent_close", "done"}
          /\ pc[m] = "done" => pc'[m] = "done"
          /\ plugin[m] = "closed" => plugin'[m] = "closed"
          /\ plugin[m] = "open" => plugin'[m] \in {"open", "closed"}
          /\ ( /\ pc[m] = "agent_close"
               /\ ~inner_response[m].able_to_serve
               /\ pc'[m] # "agent_close"
               /\ exc'[m] = None ) =>
                 /\ pc'[m] = "done"
                 /\ StatusOf(messages_store', m) = COMPLETED
                 /\ Last(GetUpdates(updates_store', m)).status = COMPLETED
                 /\ Last(GetUpdates(updates_store', m)).result =
                        inner_response[m].reply]_vars

\* a specialist that could not serve is about to return its result
C21_Witness ==
    \E m \in MsgIds :
        /\ pc[m] = "agent_close"
        /\ plugin[m] = "open"
        /\ ~inner_response[m].able_to_serve
        /\ inner_response[m].reply = "Y"

\* C22: in every specialist call the tool connection is open from before the
\* first model invocation until the result is returned; the step that takes
\* a model response publishes its steps through the callback, under the
\* specialist's name, so that when the call is about to return it has
\* published one update per response; and the step in which the call returns
\* its result finds close called once and leaves the connection closed.
C22_SpecialistOrder ==
    [][\A m \in MsgIds :
          LET name == AgentName(Route(response[m].agent_name))
              published == {i \in DOMAIN emitted[m] : emitted[m][i].agent_name = name}
          IN  /\ pc[m] \in {"agent_invoke", "agent_close"} => plugin[m] = "open"
              /\ (pc[m] = "agent_connect" /\ pc'[m] = "agent_invoke") =>
                    /\ plugin[m] = "none" /\ plugin'[m] = "open"
                    /\ count'[m] = 0
                    /\ inner_response'[m] = NoResponse
              /\ (pc[m] = "agent_invoke" /\ count'[m] = count[m] + 1) =>
                    LET u == UpdateResponse(m, IN_PROGRESS,
                                 Join(inner_response'[m].steps), name)
                    IN  /\ emitted'[m] = Append(emitted[m], u)
                        /\ GetUpdates(updates_store', m) =
                               Append(GetUpdates(updates_store, m), u)
              /\ pc[m] = "agent_close" =>
                    /\ count[m] >= 1
                    /\ Cardinality(published) = count[m]
              /\ (pc[m] = "agent_close" /\ pc'[m] = "done" /\ exc'[m] = None) =>
                    /\ close_calls[m] = 1
                    /\ plugin'[m] = "closed"]_vars

\* a specialist call has returned: three updates were published on the way
\* and the connection is closed
C22_Witness ==
    \E m \in MsgIds :
        /\ pc[m] = "done"
        /\ exc[m] = None
        /\ plugin[m] = "closed"
        /\ close_calls[m] = 1
        /\ Len(emitted[m]) = 3
        /\ emitted[m][3].agent_name = "Roaming"

\* C23: as long as the task of a message takes no step (its call has not
\* returned) the status and the updates of the message stay as they are, so
\* a message whose call never returns stays InProgress without a terminal
\* update; and every other submitted message still becomes Completed or
\* Failed.
C23_HungCallBlocksOnlyItsMessage ==
    /\ [][\A m \in Submitted :
             (pc'[m] = pc[m] /\ count'[m] = count[m]) =>
                /\ messages_store'[m] = messages_store[m]
                /\ GetUpdates(updates_store', m) = GetUpdates(updates_store, m)]_vars
    /\ \A n \in MsgIds \ {1} :
          (n \in Submitted) ~> (StatusOf(messages_store, n) \in Terminal)

C25_UnknownIdProcessFails ==
    \A m \in MsgIds \ Submitted :
        /\ m \notin DOMAIN updates_store
        /\ Finished(m) => exc[m] # None

\* C26: in every reachable state, a message has status Received exactly when
\* it has no updates, InProgress exactly when it has updates and the last
\* one is not terminal, and Completed (Failed) exactly when its last update
\* has status Completed (Failed): the status and the update list change in
\* the same step, so no read sees one without the other.
C26_StatusMatchesUpdates ==
    \A m \in Submitted :
        LET st == messages_store[m].status
            ups == GetUpdates(updates_store, m)
        IN  /\ st = RECEIVED <=> ups = <<>>
            /\ st = IN_PROGRESS <=> (ups # <<>> /\ Last(ups).status \notin Terminal)
            /\ st = COMPLETED <=> (ups # <<>> /\ Last(ups).status = COMPLETED)
            /\ st = FAILED <=> (ups # <<>> /\ Last(ups).status = FAILED)

\* one message is Failed with its terminal update, another one is InProgress
\* with intermediate updates
C26_Witness ==
    \E m, n \in Submitted :
        /\ messages_store[m].status = FAILED
        /\ Last(GetUpdates(updates_store, m)).status = FAILED
        /\ messages_store[n].status = IN_PROGRESS
        /\ Len(GetUpdates(updates_store, n)) >= 3
        /\ Last(GetUpdates(updates_store, n)).status = IN_PROGRESS

\* C27: a step of the task of message m (its position or its response count
\* changes) leaves the entry and the update list of every other message and
\* the registry entry of every other conversation as they are; and every
\* update in the list of a message carries the id of that message.
C27_TaskTouchesOwnMessageOnly ==
    [][/\ \A m \in MsgIds :
             (pc'[m] # pc[m] \/ count'[m] # count[m]) =>
                /\ \A n \in Submitted \ {m} :
                      /\ messages_store'[n] = messages_store[n]
                      /\ GetUpdates(updates_store', n) = GetUpdates(updates_store, n)
                /\ \A c \in ConvIds \ {thread_id'[m]} :
                      Entry(threads', c) = Entry(threads, c)
       /\ \A m \in DOMAIN updates_store' :
             \A i \in DOMAIN updates_store'[m] :
                 updates_store'[m][i].message_id = m]_vars

\* two messages on different conversations, each with its own updates and its
\* own registry entry
C27_Witness ==
    \E m, n \in Submitted :
        /\ thread_id[m] = "c1" /\ thread_id[n] = "c2"
        /\ pc[m] = "done" /\ pc[n] = "done"
        /\ threads["c1"] = m /\ threads["c2"] = n
        /\ Len(GetUpdates(updates_store, m)) >= 3
        /\ Len(GetUpdates(updates_store, n)) >= 3

\* C28: in the step in which the specialist the planner chose from the
\* catalog returns its result, the agent name of the terminal update is the
\* catalog name the planner chose.
C28_TerminalNameIsCatalogName ==
    [][\A m \in MsgIds :
          ( /\ pc[m] = "agent_close"
            /\ response[m].agent_name \in AVAILABLE_AGENTS
            /\ pc'[m] = "done"
            /\ exc'[m] = None ) =>
              Last(GetUpdates(updates_store', m)).agent_name =
                  response[m].agent_name]_vars

C30_ConformingOutputAccepted ==
    \A m \in MsgIds : exc[m] # JoinError

====
